---------------------------- MODULE Spec2Model ----------------------------
(***************************************************************************)
(* A model of the composition engine of the protego validation library:    *)
(* the sequential runner Validate, the combinators And / Or, the           *)
(* per-element aggregator Each and the keyed-map validators                *)
(* ValidateStringMap / ValidateAnyMap, together with the error values      *)
(* they build (fmt.Errorf, errors.Join, the validation Error).             *)
(*                                                                         *)
(* A validator is a function value.  Leaf validators are call-recording    *)
(* stubs: a leaf has an identity, the set of values it accepts and the     *)
(* flavour of error it returns (a plain fmt.Errorf error, as Required      *)
(* does, or a validation Error, as MinLength does).  Every operator        *)
(* returns the pair (err, calls): the error returned to the caller and     *)
(* the leaf invocations performed, in order.                               *)
(*                                                                         *)
(* A message is a sequence of string pieces: the pieces produced by the    *)
(* formatting verbs and literals, in order.                                *)
(***************************************************************************)
EXTENDS Integers, Sequences, FiniteSets, TLC

VARIABLES pc, op, args, res, calls, frames, heap, now

vars == <<pc, op, args, res, calls, frames, heap, now>>

(***************************************************************************)
(* Bounds of the model.                                                    *)
(***************************************************************************)
\* longest validator list handed to Validate, And and Or
MaxLen == 3
\* longest sequence handed to Each
MaxSeq == 3

\* deepest nesting of fmt.Errorf and errors.Join in the errors handed to the
\* error model
MaxWrap == 2

\* longest validator list and longest sequence of the concurrent invocations
MaxConc == 2

\* the last instant of the clock
MaxTime == 2

\* most rules handed to a map validator
MaxRules == 2
\* most leaf validators over all the rules of one call
MaxChecks == 2

\* the values of the generic type T that the leaf stubs are tried on
Values == {0, 1}

RECURSIVE Msg(_)
RECURSIVE Chain(_)
RECURSIVE ChainAll(_)
RECURSIVE Itoa(_)
RECURSIVE JoinMsgs(_)
RECURSIVE Call(_, _)
RECURSIVE ValidateLoop(_, _, _, _)
RECURSIVE AndLoop(_, _, _, _)
RECURSIVE OrLoop(_, _, _, _, _)
RECURSIVE EachLoop(_, _, _, _, _)
RECURSIVE StringRuleValidators(_, _, _, _, _)
RECURSIVE StringMapRules(_, _, _, _, _)
RECURSIVE StringMapExtra(_, _, _)
RECURSIVE AnyRuleValidators(_, _, _, _, _)
RECURSIVE AnyMapRules(_, _, _, _, _)
RECURSIVE AnyMapExtra(_, _, _)
RECURSIVE ForeignErrors(_)
RECURSIVE UniqueLoop(_, _, _)
RECURSIVE SumLens(_)
RECURSIVE ExpectedCalls(_, _, _)

(***************************************************************************)
(* Error values.                                                           *)
(***************************************************************************)
\* the nil error
Nil == [kind |-> "nil"]

\* fmt.Errorf with no %w verb (and errors.New): a plain error with a message
ErrorString(m) == [kind |-> "errorString", msg |-> m]

\* errors.Join: nil operands are dropped; nil when nothing is left
JoinErrors(errs) ==
    LET kept == SelectSeq(errs, LAMBDA e : e # Nil)
    IN  IF Len(kept) = 0 THEN Nil ELSE [kind |-> "joinError", errs |-> kept]

\* joinError.Error(): the messages of the joined errors, separated by newlines
JoinMsgs(errs) ==
    IF Len(errs) = 0 THEN <<>>
    ELSE IF Len(errs) = 1 THEN Msg(errs[1])
    ELSE Msg(errs[1]) \o <<"\n">> \o JoinMsgs(Tail(errs))

\* err.Error()
Msg(e) ==
    IF e.kind = "joinError" THEN JoinMsgs(e.errs) ELSE e.msg

\* fmt.Errorf(prefix + "%w", err): the operand's message is formatted in and
\* the operand is kept as the unwrap target; a nil operand is formatted as a
\* bad verb and nothing is wrapped
Errorf(prefix, err) ==
    IF err = Nil
    THEN ErrorString(prefix \o <<"%!w(<nil>)">>)
    ELSE [kind |-> "wrapError", msg |-> prefix \o Msg(err), cause |-> err]

\* the %d verb: decimal digits of a natural number
Itoa(n) ==
    LET digit(d) == <<"0", "1", "2", "3", "4", "5", "6", "7", "8", "9">>[d + 1]
    IN  IF n < 10 THEN digit(n) ELSE Itoa(n \div 10) \o digit(n % 10)

\* the %q verb on a key made of plain characters: the key in double quotes
Quote(s) == "\"" \o s \o "\""

\* the errors reachable from err by following Unwrap() error and
\* Unwrap() []error, in the depth-first order errors.Is and errors.As use
ChainAll(errs) ==
    IF Len(errs) = 0 THEN <<>> ELSE Chain(errs[1]) \o ChainAll(Tail(errs))

Chain(e) ==
    CASE e.kind = "nil"         -> <<>>
      [] e.kind = "errorString" -> <<e>>
      [] e.kind = "wrapError"   -> <<e>> \o Chain(e.cause)
      [] e.kind = "Error"       -> <<e>> \o Chain(e.cause)
      [] e.kind = "joinError"   -> <<e>> \o ChainAll(e.errs)

\* NewValidationError(message): a validation Error with no cause
NewValidationError(message) == [kind |-> "Error", msg |-> message, cause |-> Nil]

\* IsValidationError looking at the error itself only, not at its chain
IsValidationErrorDirect(err) == err.kind = "Error"

\* IsValidationError(err): false for nil, true when a validation Error is
\* found on the error's chain
IsValidationError(err) ==
    \E i \in 1..Len(Chain(err)) : Chain(err)[i].kind = "Error"

\* WrapError wrapping every non-nil error, validation errors included
WrapErrorAlways(err) ==
    IF err = Nil THEN Nil
    ELSE [kind |-> "Error", msg |-> Msg(err), cause |-> err]

\* WrapError giving the wrapper a message of its own
WrapErrorOwnMessage(err) ==
    IF err = Nil THEN Nil
    ELSE IF IsValidationError(err) THEN err
    ELSE [kind |-> "Error", msg |-> <<"validation error">>, cause |-> err]

\* WrapError(err): nil stays nil, a validation error is returned unchanged,
\* any other error is wrapped keeping its message and itself as the cause
WrapError(err) ==
    IF err = Nil THEN Nil
    ELSE IF IsValidationError(err) THEN err
    ELSE [kind |-> "Error", msg |-> Msg(err), cause |-> err]

\* errors.Unwrap on an error with no Unwrap() error method
UnwrapNone(err) == Nil

\* errors.Unwrap(err): the cause of a validation Error and of a fmt.Errorf
\* %w error; nil for every other error, a joined error included
Unwrap(err) ==
    IF err.kind \in {"Error", "wrapError"} THEN err.cause ELSE Nil

(***************************************************************************)
(* Validators.                                                             *)
(***************************************************************************)
\* a leaf validator stub: accepts exactly the values of pass; its failure is
\* a validation Error when ve holds and a plain fmt.Errorf error otherwise
Leaf(id, pass, ve) == [kind |-> "leaf", id |-> id, pass |-> pass, ve |-> ve]

\* the error a failing leaf returns
LeafErr(v) ==
    IF v.ve THEN NewValidationError(<<"failed ", Itoa(v.id)>>)
    ELSE ErrorString(<<"failed ", Itoa(v.id)>>)

\* the body of a leaf validator, recording the invocation
LeafCall(v, x) ==
    [err   |-> IF x \in v.pass THEN Nil ELSE LeafErr(v),
     calls |-> << <<v.id, x>> >>]

\* Validate's loop, not stopping at the first failure: the first error is
\* still the one returned, but the remaining validators are invoked too
ValidateLoopNoStop(value, validators, i, log) ==
    IF i > Len(validators) THEN [err |-> Nil, calls |-> log]
    ELSE LET r == Call(validators[i], value)
             rest == ValidateLoop(value, validators, i + 1, log \o r.calls)
         IN  IF r.err # Nil
             THEN [err |-> r.err, calls |-> rest.calls]
             ELSE rest

\* Validate's loop over validators[i..]
ValidateLoop(value, validators, i, log) ==
    IF i > Len(validators) THEN [err |-> Nil, calls |-> log]
    ELSE LET r == Call(validators[i], value)
         IN  IF r.err # Nil
             THEN [err |-> r.err, calls |-> log \o r.calls]
             ELSE ValidateLoop(value, validators, i + 1, log \o r.calls)

\* Validate starting its loop at the second validator
ValidateSkipFirst(value, validators) == ValidateLoop(value, validators, 2, <<>>)

\* Validate(value, validators...)
Validate(value, validators) == ValidateLoop(value, validators, 1, <<>>)

\* And's loop, returning the error of the last failing validator instead of
\* stopping at the first
AndLoopLast(validators, v, i, log) ==
    IF i > Len(validators) THEN [err |-> Nil, calls |-> log]
    ELSE LET r == Call(validators[i], v)
             rest == AndLoop(validators, v, i + 1, log \o r.calls)
         IN  IF r.err # Nil /\ rest.err = Nil
             THEN [err |-> r.err, calls |-> rest.calls]
             ELSE rest

\* the loop of the validator And returns
AndLoop(validators, v, i, log) ==
    IF i > Len(validators) THEN [err |-> Nil, calls |-> log]
    ELSE LET r == Call(validators[i], v)
         IN  IF r.err # Nil
             THEN [err |-> r.err, calls |-> log \o r.calls]
             ELSE AndLoop(validators, v, i + 1, log \o r.calls)

\* And(validators...)(v)
AndFn(validators, v) == AndLoop(validators, v, 1, <<>>)

\* Or's loop, not returning at the first validator that passes: it passes
\* when some validator passed, after invoking them all
OrLoopNoStop(validators, v, i, errs, log) ==
    IF i > Len(validators)
    THEN [err   |-> IF Len(errs) = 1 THEN errs[1]
                    ELSE WrapError(Errorf(<<"all validators failed: ">>,
                                          JoinErrors(errs))),
          calls |-> log]
    ELSE LET r == Call(validators[i], v)
             rest == OrLoop(validators, v, i + 1, errs, log \o r.calls)
         IN  IF r.err = Nil
             THEN [err |-> Nil, calls |-> rest.calls]
             ELSE OrLoop(validators, v, i + 1, Append(errs, r.err),
                         log \o r.calls)

\* Or's loop without the single-failure case: every failure is aggregated
OrLoopAlwaysJoin(validators, v, i, errs, log) ==
    IF i > Len(validators)
    THEN [err   |-> WrapError(Errorf(<<"all validators failed: ">>,
                                     JoinErrors(errs))),
          calls |-> log]
    ELSE LET r == Call(validators[i], v)
         IN  IF r.err = Nil
             THEN [err |-> Nil, calls |-> log \o r.calls]
             ELSE OrLoop(validators, v, i + 1, Append(errs, r.err),
                         log \o r.calls)

\* Or's loop keeping only the most recent failure instead of appending it
OrLoopKeepLast(validators, v, i, errs, log) ==
    IF i > Len(validators)
    THEN [err   |-> IF Len(errs) = 1 THEN errs[1]
                    ELSE WrapError(Errorf(<<"all validators failed: ">>,
                                          JoinErrors(errs))),
          calls |-> log]
    ELSE LET r == Call(validators[i], v)
         IN  IF r.err = Nil
             THEN [err |-> Nil, calls |-> log \o r.calls]
             ELSE OrLoop(validators, v, i + 1, <<r.err>>, log \o r.calls)

\* the loop of the validator Or returns, collecting the failures in errs
OrLoop(validators, v, i, errs, log) ==
    IF i > Len(validators)
    THEN [err   |-> IF Len(errs) = 1 THEN errs[1]
                    ELSE WrapError(Errorf(<<"all validators failed: ">>,
                                          JoinErrors(errs))),
          calls |-> log]
    ELSE LET r == Call(validators[i], v)
         IN  IF r.err = Nil
             THEN [err |-> Nil, calls |-> log \o r.calls]
             ELSE OrLoop(validators, v, i + 1, Append(errs, r.err),
                         log \o r.calls)

\* Or(validators...)(v)
OrFn(validators, v) == OrLoop(validators, v, 1, <<>>, <<>>)

\* Each's loop, stopping at the first element that fails
EachLoopStop(elementValidator, values, i, errs, log) ==
    IF i >= Len(values)
    THEN [err |-> JoinErrors(errs), calls |-> log]
    ELSE LET r == Call(elementValidator, values[i + 1])
         IN  IF r.err # Nil
             THEN [err   |-> JoinErrors(Append(errs,
                                 Errorf(<<"index ", Itoa(i), ": ">>, r.err))),
                   calls |-> log \o r.calls]
             ELSE EachLoop(elementValidator, values, i + 1, errs,
                           log \o r.calls)

\* Each's loop, tagging a failure with the one-based position of the element
EachLoopOneBased(elementValidator, values, i, errs, log) ==
    IF i >= Len(values)
    THEN [err |-> JoinErrors(errs), calls |-> log]
    ELSE LET r == Call(elementValidator, values[i + 1])
         IN  EachLoop(elementValidator, values, i + 1,
                      IF r.err # Nil
                      THEN Append(errs,
                                  Errorf(<<"index ", Itoa(i + 1), ": ">>, r.err))
                      ELSE errs,
                      log \o r.calls)

\* the loop of the validator Each returns; i is the zero-based index
EachLoop(elementValidator, values, i, errs, log) ==
    IF i >= Len(values)
    THEN [err |-> JoinErrors(errs), calls |-> log]
    ELSE LET r == Call(elementValidator, values[i + 1])
         IN  EachLoop(elementValidator, values, i + 1,
                      IF r.err # Nil
                      THEN Append(errs,
                                  Errorf(<<"index ", Itoa(i), ": ">>, r.err))
                      ELSE errs,
                      log \o r.calls)

\* Each(elementValidator)(values)
EachFn(elementValidator, values) ==
    EachLoop(elementValidator, values, 0, <<>>, <<>>)

\* the loop of the validator UniqueItems returns; seen is the set of the
\* items met so far, i the zero-based index
UniqueLoop(values, i, seen) ==
    IF i >= Len(values) THEN Nil
    ELSE IF values[i + 1] \in seen
    THEN ErrorString(<<"duplicate item at index ", Itoa(i), ": ",
                       Itoa(values[i + 1])>>)
    ELSE UniqueLoop(values, i + 1, seen \cup {values[i + 1]})

\* UniqueItems()(values)
UniqueItemsFn(values) == [err |-> UniqueLoop(values, 0, {}), calls |-> <<>>]

\* MapKey(key, required, validators...)
MapKey(key, required, validators) ==
    [key |-> key, required |-> required, validators |-> validators]

\* the loop over rule.validators of ValidateStringMap, returning a failure
\* as it is, without the key as context
StringRuleValidatorsBare(key, validators, value, j, log) ==
    IF j > Len(validators) THEN [err |-> Nil, calls |-> log]
    ELSE LET r == Call(validators[j], value)
         IN  IF r.err # Nil
             THEN [err |-> r.err, calls |-> log \o r.calls]
             ELSE StringRuleValidators(key, validators, value, j + 1,
                                       log \o r.calls)

\* the loop over rule.validators of ValidateStringMap, on the value found at the key
StringRuleValidators(key, validators, value, j, log) ==
    IF j > Len(validators) THEN [err |-> Nil, calls |-> log]
    ELSE LET r == Call(validators[j], value)
         IN  IF r.err # Nil
             THEN [err   |-> Errorf(<<"key ", Quote(key), ": ">>, r.err),
                   calls |-> log \o r.calls]
             ELSE StringRuleValidators(key, validators, value, j + 1,
                                       log \o r.calls)

\* the loop over the rules of ValidateStringMap, going on to the next rule
\* when a required key is missing
StringMapRulesSkipMissing(m, rules, r, validated, log) ==
    IF r > Len(rules)
    THEN [err |-> Nil, calls |-> log, validated |-> validated]
    ELSE LET rule   == rules[r]
             marked == validated \cup {rule.key}
             exists == rule.key \in DOMAIN m
         IN  IF exists
             THEN LET vr == StringRuleValidators(rule.key, rule.validators,
                                                m[rule.key], 1, log)
                  IN  IF vr.err # Nil
                      THEN [err       |-> vr.err,
                            calls     |-> vr.calls,
                            validated |-> marked]
                      ELSE StringMapRules(m, rules, r + 1, marked, vr.calls)
             ELSE StringMapRules(m, rules, r + 1, marked, log)

\* the loop over the rules of ValidateStringMap; validated is the set of keys marked
StringMapRules(m, rules, r, validated, log) ==
    IF r > Len(rules)
    THEN [err |-> Nil, calls |-> log, validated |-> validated]
    ELSE LET rule   == rules[r]
             marked == validated \cup {rule.key}
             exists == rule.key \in DOMAIN m
         IN  IF ~exists /\ rule.required
             THEN [err       |-> ErrorString(<<"key ", Quote(rule.key),
                                               " is required">>),
                   calls     |-> log,
                   validated |-> marked]
             ELSE IF exists
             THEN LET vr == StringRuleValidators(rule.key, rule.validators,
                                                m[rule.key], 1, log)
                  IN  IF vr.err # Nil
                      THEN [err       |-> vr.err,
                            calls     |-> vr.calls,
                            validated |-> marked]
                      ELSE StringMapRules(m, rules, r + 1, marked, vr.calls)
             ELSE StringMapRules(m, rules, r + 1, marked, log)

\* the scan for extra keys of ValidateStringMap: order is the order in which the
\* range statement yields the keys of m
StringMapExtra(order, validated, k) ==
    IF k > Len(order) THEN Nil
    ELSE IF order[k] \notin validated
    THEN ErrorString(<<"key ", Quote(order[k]), " not expected">>)
    ELSE StringMapExtra(order, validated, k + 1)

\* ValidateStringMap with the allowExtra test the wrong way round
ValidateStringMapFlipped(m, allowExtra, rules, order) ==
    LET rr == StringMapRules(m, rules, 1, {}, <<>>)
    IN  IF rr.err # Nil THEN [err |-> rr.err, calls |-> rr.calls]
        ELSE IF allowExtra
        THEN [err |-> StringMapExtra(order, rr.validated, 1), calls |-> rr.calls]
        ELSE [err |-> Nil, calls |-> rr.calls]

\* ValidateStringMap(m, allowExtra, rules...)
ValidateStringMap(m, allowExtra, rules, order) ==
    LET rr == StringMapRules(m, rules, 1, {}, <<>>)
    IN  IF rr.err # Nil THEN [err |-> rr.err, calls |-> rr.calls]
        ELSE IF ~allowExtra
        THEN [err |-> StringMapExtra(order, rr.validated, 1), calls |-> rr.calls]
        ELSE [err |-> Nil, calls |-> rr.calls]

\* the loop over rule.validators of ValidateAnyMap, on the value found at the key
AnyRuleValidators(key, validators, value, j, log) ==
    IF j > Len(validators) THEN [err |-> Nil, calls |-> log]
    ELSE LET r == Call(validators[j], value)
         IN  IF r.err # Nil
             THEN [err   |-> Errorf(<<"key ", Quote(key), ": ">>, r.err),
                   calls |-> log \o r.calls]
             ELSE AnyRuleValidators(key, validators, value, j + 1,
                                       log \o r.calls)

\* the loop over the rules of ValidateAnyMap; validated is the set of keys marked
AnyMapRules(m, rules, r, validated, log) ==
    IF r > Len(rules)
    THEN [err |-> Nil, calls |-> log, validated |-> validated]
    ELSE LET rule   == rules[r]
             marked == validated \cup {rule.key}
             exists == rule.key \in DOMAIN m
         IN  IF ~exists /\ rule.required
             THEN [err       |-> ErrorString(<<"key ", Quote(rule.key),
                                               " is required">>),
                   calls     |-> log,
                   validated |-> marked]
             ELSE IF exists
             THEN LET vr == AnyRuleValidators(rule.key, rule.validators,
                                                m[rule.key], 1, log)
                  IN  IF vr.err # Nil
                      THEN [err       |-> vr.err,
                            calls     |-> vr.calls,
                            validated |-> marked]
                      ELSE AnyMapRules(m, rules, r + 1, marked, vr.calls)
             ELSE AnyMapRules(m, rules, r + 1, marked, log)

\* the scan for extra keys of ValidateAnyMap: order is the order in which the
\* range statement yields the keys of m
AnyMapExtra(order, validated, k) ==
    IF k > Len(order) THEN Nil
    ELSE IF order[k] \notin validated
    THEN ErrorString(<<"key ", Quote(order[k]), " not expected">>)
    ELSE AnyMapExtra(order, validated, k + 1)

\* ValidateAnyMap scanning for extra keys before it checks the rules
ValidateAnyMapScanFirst(m, allowExtra, rules, order) ==
    LET rr      == AnyMapRules(m, rules, 1, {}, <<>>)
        named   == {rules[r].key : r \in 1..Len(rules)}
        scanned == IF ~allowExtra THEN AnyMapExtra(order, named, 1) ELSE Nil
    IN  IF scanned # Nil THEN [err |-> scanned, calls |-> <<>>]
        ELSE [err |-> rr.err, calls |-> rr.calls]

\* ValidateAnyMap(m, allowExtra, rules...)
ValidateAnyMap(m, allowExtra, rules, order) ==
    LET rr == AnyMapRules(m, rules, 1, {}, <<>>)
    IN  IF rr.err # Nil THEN [err |-> rr.err, calls |-> rr.calls]
        ELSE IF ~allowExtra
        THEN [err |-> AnyMapExtra(order, rr.validated, 1), calls |-> rr.calls]
        ELSE [err |-> Nil, calls |-> rr.calls]

(***************************************************************************)
(* The shims that adapt a typed validator to a dynamically typed value.    *)
(* A dynamically typed value is a record with its dynamic type and, under  *)
(* val, int, bool or num, its string, integer, boolean or floating-point   *)
(* number.  A floating-point                                               *)
(* number [n, half, over] stands for n, or n + 0.5 when half; when over,   *)
(* for a whole number greater than every int (such as 1e19).               *)
(***************************************************************************)
\* the greatest and the least int, at the width the model's integers hold
\* (int of a 32-bit build)
MaxInt == 2147483647
MinInt == 0 - MaxInt - 1

\* float64(val) of an integer
FloatOfInt(val) == [n |-> val, half |-> FALSE, over |-> FALSE]

\* int(val) of a float64: truncation; when the value is out of the range of
\* int the result depends on the build, MinInt on 386 and MaxInt on arm
IntOfFloat(num, build) ==
    IF num.over THEN (IF build = "386" THEN MinInt ELSE MaxInt)
    ELSE num.n

\* StringValidator(validator)(v)
StringValidatorFn(validator, v) ==
    IF v.type # "string"
    THEN [err |-> ErrorString(<<"must be a string">>), calls |-> <<>>]
    ELSE Call(validator, v.val)

\* IntValidator reading an absent value as the zero value
IntValidatorFnZero(validator, v, build) ==
    CASE v.type = "nil"     -> Call(validator, 0)
      [] v.type = "int"     -> Call(validator, v.int)
      [] v.type = "float64" -> Call(validator, IntOfFloat(v.num, build))
      [] v.type = "int64"   -> Call(validator, v.int)
      [] OTHER -> [err |-> ErrorString(<<"must be a number">>), calls |-> <<>>]

\* IntValidator(validator)(v)
IntValidatorFn(validator, v, build) ==
    CASE v.type = "int"     -> Call(validator, v.int)
      [] v.type = "float64" -> Call(validator, IntOfFloat(v.num, build))
      [] v.type = "int64"   -> Call(validator, v.int)
      [] OTHER -> [err |-> ErrorString(<<"must be a number">>), calls |-> <<>>]

\* FloatValidator(validator)(v)
FloatValidatorFn(validator, v) ==
    CASE v.type = "float64" -> Call(validator, v.num)
      [] v.type = "float32" -> Call(validator, v.num)
      [] v.type = "int"     -> Call(validator, FloatOfInt(v.int))
      [] v.type = "int64"   -> Call(validator, FloatOfInt(v.int))
      [] OTHER -> [err |-> ErrorString(<<"must be a number">>), calls |-> <<>>]

\* BoolValidator(validator)(v)
BoolValidatorFn(validator, v) ==
    IF v.type # "bool"
    THEN [err |-> ErrorString(<<"must be a boolean">>), calls |-> <<>>]
    ELSE Call(validator, v.bool)

(***************************************************************************)
(* The validators of dates and times.  An instant is a number; time.Now()  *)
(* is the variable now.  A date string is a record telling whether         *)
(* time.Parse accepts it under the layout and, if so, the instant t it     *)
(* denotes.                                                                *)
(***************************************************************************)
\* before.Format(time.RFC3339): the text of an instant
FormatTime(t) == "T" \o Itoa(t)

\* IsFutureDateFormat(layout)(v)
IsFutureDateFormatFn(v) ==
    [err   |-> IF ~v.parses THEN NewValidationError(<<"invalid date format">>)
               ELSE IF ~(v.t > now)
               THEN NewValidationError(<<"must be a future date">>)
               ELSE Nil,
     calls |-> <<>>]

\* IsPastDateFormat(layout)(v)
IsPastDateFormatFn(v) ==
    [err   |-> IF ~v.parses THEN NewValidationError(<<"invalid date format">>)
               ELSE IF ~(v.t < now)
               THEN NewValidationError(<<"must be a past date">>)
               ELSE Nil,
     calls |-> <<>>]

\* IsFutureTime()(v)
IsFutureTimeFn(v) ==
    [err   |-> IF ~(v > now) THEN NewValidationError(<<"must be a future time">>)
               ELSE Nil,
     calls |-> <<>>]

\* IsPastTime()(v)
IsPastTimeFn(v) ==
    [err   |-> IF ~(v < now) THEN NewValidationError(<<"must be a past time">>)
               ELSE Nil,
     calls |-> <<>>]

\* IsTimeBefore(before)(v)
IsTimeBeforeFn(before, v) ==
    [err   |-> IF ~(v < before)
               THEN NewValidationError(<<"must be before ", FormatTime(before)>>)
               ELSE Nil,
     calls |-> <<>>]

\* IsTimeAfter comparing with the clock when the instant given is not later
IsTimeAfterFnClock(after, v) ==
    [err   |-> IF ~(v > after) \/ ~(v > now)
               THEN NewValidationError(<<"must be after ", FormatTime(after)>>)
               ELSE Nil,
     calls |-> <<>>]

\* IsTimeAfter(after)(v)
IsTimeAfterFn(after, v) ==
    [err   |-> IF ~(v > after)
               THEN NewValidationError(<<"must be after ", FormatTime(after)>>)
               ELSE Nil,
     calls |-> <<>>]

\* WithMessage keeping the validator's own error and only wrapping it
WithMessageFnKeep(validator, message, v) ==
    LET r == Call(validator, v)
    IN  [err |-> WrapError(r.err), calls |-> r.calls]

\* WithMessage(validator, message)(v)
WithMessageFn(validator, message, v) ==
    LET r == Call(validator, v)
    IN  [err   |-> IF r.err # Nil THEN NewValidationError(message) ELSE Nil,
         calls |-> r.calls]

\* Not passing on the outcome of the validator instead of inverting it
NotFnSame(validator, v) ==
    LET r == Call(validator, v) IN [err |-> r.err, calls |-> r.calls]

\* Not(validator)(v)
NotFn(validator, v) ==
    LET r == Call(validator, v)
    IN  [err   |-> IF r.err # Nil THEN Nil
                   ELSE NewValidationError(
                            <<"validation should have failed but passed">>),
         calls |-> r.calls]

\* When running the validator whatever the condition
WhenFnAlways(condition, validator, v) == Call(validator, v)

\* When(condition, validator)(v)
WhenFn(condition, validator, v) ==
    IF ~condition THEN [err |-> Nil, calls |-> <<>>]
    ELSE Call(validator, v)

\* Unless handing the condition to When as it is
UnlessFnSame(condition, validator, v) == WhenFn(condition, validator, v)

\* Unless(condition, validator)(v)
UnlessFn(condition, validator, v) == WhenFn(~condition, validator, v)

\* the validator function values the helpers return
\* the validator function values the combinators return
WithMessage(validator, message) ==
    [kind |-> "WithMessage", validator |-> validator, message |-> message]
StringValidator(validator) ==
    [kind |-> "StringValidator", validator |-> validator]
UniqueItems == [kind |-> "UniqueItems"]
Not(validator) == [kind |-> "Not", validator |-> validator]
When(condition, validator) ==
    [kind |-> "When", condition |-> condition, validator |-> validator]
Unless(condition, validator) ==
    [kind |-> "Unless", condition |-> condition, validator |-> validator]
And(validators) == [kind |-> "And", validators |-> validators]
Or(validators) == [kind |-> "Or", validators |-> validators]
Each(elementValidator) == [kind |-> "Each", elementValidator |-> elementValidator]

\* validator(value): the call of a validator function value
Call(v, x) ==
    CASE v.kind = "leaf" -> LeafCall(v, x)
      [] v.kind = "And"  -> AndFn(v.validators, x)
      [] v.kind = "Or"   -> OrFn(v.validators, x)
      [] v.kind = "Each" -> EachFn(v.elementValidator, x)
      [] v.kind = "UniqueItems" -> UniqueItemsFn(x)
      [] v.kind = "IsFutureDateFormat" -> IsFutureDateFormatFn(x)
      [] v.kind = "IsPastDateFormat" -> IsPastDateFormatFn(x)
      [] v.kind = "IsFutureTime" -> IsFutureTimeFn(x)
      [] v.kind = "IsPastTime" -> IsPastTimeFn(x)
      [] v.kind = "IsTimeBefore" -> IsTimeBeforeFn(v.before, x)
      [] v.kind = "IsTimeAfter" -> IsTimeAfterFn(v.after, x)
      [] v.kind = "StringValidator" -> StringValidatorFn(v.validator, x)
      [] v.kind = "WithMessage" -> WithMessageFn(v.validator, v.message, x)
      [] v.kind = "Not"  -> NotFn(v.validator, x)
      [] v.kind = "When" -> WhenFn(v.condition, v.validator, x)
      [] v.kind = "Unless" -> UnlessFn(v.condition, v.validator, x)

\* the Validate() method of a value that implements Validatable: a stub that
\* returns a fixed result and records its invocation
ValidateMethod(value) ==
    [err |-> value.result, calls |-> << <<value.id, "Validate">> >>]

\* ValidateNested answering a value without a Validate() method with an error
ValidateNestedStrict(value) ==
    IF value.validatable THEN ValidateMethod(value)
    ELSE [err |-> NewValidationError(<<"not validatable">>), calls |-> <<>>]

\* ValidateNested(value)
ValidateNested(value) ==
    IF value.validatable THEN ValidateMethod(value)
    ELSE [err |-> Nil, calls |-> <<>>]

(***************************************************************************)
(* The inputs the calls are tried on.                                      *)
(***************************************************************************)
\* the leaf stubs with a given identity
LeafStubs(id) == {Leaf(id, p, ve) : p \in SUBSET Values, ve \in BOOLEAN}

\* the lists of leaf stubs of length n; the stub at position i has identity i
LeafLists(n) ==
    {[i \in 1..n |-> Leaf(i, b[i].pass, b[i].ve)] :
        b \in [1..n -> [pass : SUBSET Values, ve : BOOLEAN]]}

ValidatorLists == UNION {LeafLists(n) : n \in 0..MaxLen}

ValueSeqs == UNION {[1..n -> Values] : n \in 0..MaxSeq}

\* the messages handed to WithMessage
Messages == {<<"custom message">>, <<"count cannot be zero">>}

\* what the Validate() method of a nested value may return: nil, a plain
\* error, a validation error, or the errors.Join of two field errors
NestedResults ==
    {Nil, ErrorString(<<"required">>), NewValidationError(<<"bad city">>),
     JoinErrors(<<ErrorString(<<"required">>), ErrorString(<<"required">>)>>)}

\* the values handed to ValidateNested: those that implement Validatable,
\* and a struct and a primitive that do not
NestedValues ==
    {[validatable |-> TRUE, id |-> 1, result |-> r] : r \in NestedResults}
        \cup {[validatable |-> FALSE, id |-> i] : i \in {2, 3}}

\* the keys of the maps, and those among them that rules are written for
Keys == {"name", "age", "extra"}
RuleKeys == {"name", "age"}

\* the values of a string-valued map and of a dynamically typed map
StringValues == {"x"}
AnyValues == {[type |-> "string", val |-> "x"]}

StringMaps == UNION {[S -> StringValues] : S \in SUBSET Keys}
AnyMaps == UNION {[S -> AnyValues] : S \in SUBSET Keys}

\* the orders in which a range statement can yield the keys of m
RangeOrders(m) ==
    LET n == Cardinality(DOMAIN m)
    IN  {o \in [1..n -> DOMAIN m] : \A i, j \in 1..n : o[i] = o[j] => i = j}

\* the shape of a rule: its key, its required flag and, for each of its
\* validators, whether the stub accepts the values of the map
RuleShapes ==
    [key : RuleKeys, required : BOOLEAN,
     accepts : UNION {[1..n -> BOOLEAN] : n \in 0..MaxChecks}]

SumLens(shapes) ==
    IF Len(shapes) = 0 THEN 0
    ELSE Len(shapes[1].accepts) + SumLens(Tail(shapes))

ShapeLists ==
    {sh \in UNION {[1..n -> RuleShapes] : n \in 0..MaxRules} :
        SumLens(sh) <= MaxChecks}

\* the stub at position j of rule r: it accepts all of dom or nothing; the
\* stubs at odd positions return plain errors, those at even positions
\* validation Errors
RuleLeaf(r, j, accepts, dom) ==
    Leaf(10 * r + j, IF accepts THEN dom ELSE {}, j % 2 = 0)

\* the rule list of a list of shapes, over the value set dom
RulesOf(sh, dom) ==
    [r \in 1..Len(sh) |->
        MapKey(sh[r].key, sh[r].required,
               [j \in 1..Len(sh[r].accepts) |->
                   RuleLeaf(r, j, sh[r].accepts[j], dom)])]

(***************************************************************************)
(* The calls.                                                              *)
(***************************************************************************)
Init ==
    /\ pc = "idle"
    /\ op = "none"
    /\ args = <<>>
    /\ res = Nil
    /\ calls = <<>>
    /\ frames = <<>>
    /\ heap = <<>>
    /\ now = 0

Returned(name, a, r) ==
    /\ pc' = "done"
    /\ op' = name
    /\ args' = a
    /\ res' = r.err
    /\ calls' = r.calls
    /\ UNCHANGED <<frames, heap, now>>

CallValidate ==
    /\ pc = "idle"
    /\ \E value \in Values, validators \in ValidatorLists :
          Returned("Validate", [value |-> value, validators |-> validators],
                   Validate(value, validators))

CallAnd ==
    /\ pc = "idle"
    /\ \E value \in Values, validators \in ValidatorLists :
          Returned("And", [value |-> value, validators |-> validators],
                   Call(And(validators), value))

CallOr ==
    /\ pc = "idle"
    /\ \E value \in Values, validators \in ValidatorLists :
          Returned("Or", [value |-> value, validators |-> validators],
                   Call(Or(validators), value))

CallEach ==
    /\ pc = "idle"
    /\ \E values \in ValueSeqs, ev \in LeafStubs(1) :
          Returned("Each", [values |-> values, elementValidator |-> ev],
                   Call(Each(ev), values))

CallNot ==
    /\ pc = "idle"
    /\ \E value \in Values, validator \in LeafStubs(1) :
          Returned("Not", [value |-> value, validator |-> validator],
                   Call(Not(validator), value))

\* Not(Not(validator))(value)
CallNotNot ==
    /\ pc = "idle"
    /\ \E value \in Values, validator \in LeafStubs(1) :
          Returned("NotNot", [value |-> value, validator |-> validator],
                   Call(Not(Not(validator)), value))

CallWhen ==
    /\ pc = "idle"
    /\ \E condition \in BOOLEAN, value \in Values, validator \in LeafStubs(1) :
          Returned("When", [condition |-> condition, value |-> value,
                            validator |-> validator],
                   Call(When(condition, validator), value))

CallUnless ==
    /\ pc = "idle"
    /\ \E condition \in BOOLEAN, value \in Values, validator \in LeafStubs(1) :
          Returned("Unless", [condition |-> condition, value |-> value,
                              validator |-> validator],
                   Call(Unless(condition, validator), value))

CallWithMessage ==
    /\ pc = "idle"
    /\ \E value \in Values, validator \in LeafStubs(1), message \in Messages :
          Returned("WithMessage", [value |-> value, validator |-> validator,
                                   message |-> message],
                   Call(WithMessage(validator, message), value))

CallValidateNested ==
    /\ pc = "idle"
    /\ \E value \in NestedValues :
          Returned("ValidateNested", [value |-> value], ValidateNested(value))

CallValidateStringMap ==
    /\ pc = "idle"
    /\ \E m \in StringMaps, allowExtra \in BOOLEAN, sh \in ShapeLists :
          \E order \in RangeOrders(m) :
              Returned("ValidateStringMap",
                       [m |-> m, allowExtra |-> allowExtra,
                        rules |-> RulesOf(sh, StringValues)],
                       ValidateStringMap(m, allowExtra,
                                         RulesOf(sh, StringValues), order))

CallValidateAnyMap ==
    /\ pc = "idle"
    /\ \E m \in AnyMaps, allowExtra \in BOOLEAN, sh \in ShapeLists :
          \E order \in RangeOrders(m) :
              Returned("ValidateAnyMap",
                       [m |-> m, allowExtra |-> allowExtra,
                        rules |-> RulesOf(sh, AnyValues)],
                       ValidateAnyMap(m, allowExtra,
                                      RulesOf(sh, AnyValues), order))

Next ==
    \/ CallValidate
    \/ CallAnd
    \/ CallOr
    \/ CallEach
    \/ CallNot
    \/ CallNotNot
    \/ CallWhen
    \/ CallUnless
    \/ CallWithMessage
    \/ CallValidateNested

Spec == Init /\ [][Next]_vars

\* the calls of the map validators
MapNext == CallValidateStringMap \/ CallValidateAnyMap

MapSpec == Init /\ [][MapNext]_vars

(***************************************************************************)
(* The calls of the shims.                                                 *)
(***************************************************************************)
\* the floating-point numbers: 0, 0.5, 1, 1.5 and one beyond the range of int
Floats ==
    {[n |-> n, half |-> h, over |-> FALSE] : n \in Values, h \in BOOLEAN}
        \cup {[n |-> 0, half |-> FALSE, over |-> TRUE]}

\* the integers a wrapped int validator can be handed
Ints == Values \cup {MinInt, MaxInt}

\* the dynamically typed values: nil, a string, the booleans, integers of
\* the types int, int64 and int32, and floating-point numbers of both widths
DynValues ==
    {[type |-> "nil"]}
        \cup {[type |-> "string", val |-> x] : x \in StringValues}
        \cup {[type |-> "bool", bool |-> b] : b \in BOOLEAN}
        \cup {[type |-> t, int |-> n] : t \in {"int", "int64", "int32"}, n \in Values}
        \cup {[type |-> t, num |-> f] : t \in {"float64", "float32"}, f \in Floats}

\* the builds that differ in int(val) of an out-of-range float64
Builds == {"386", "arm"}

\* the stubs of a wrapped validator over the values of its type
TypedStubs(dom) == {Leaf(1, p, ve) : p \in SUBSET dom, ve \in BOOLEAN}

CallStringValidator ==
    /\ pc = "idle"
    /\ \E v \in DynValues, validator \in TypedStubs(StringValues) :
          Returned("StringValidator", [v |-> v, validator |-> validator],
                   Call(StringValidator(validator), v))

CallIntValidator ==
    /\ pc = "idle"
    /\ \E v \in DynValues, validator \in TypedStubs(Ints), build \in Builds :
          Returned("IntValidator",
                   [v |-> v, validator |-> validator, build |-> build],
                   IntValidatorFn(validator, v, build))

CallFloatValidator ==
    /\ pc = "idle"
    /\ \E v \in DynValues, validator \in TypedStubs(Floats) :
          Returned("FloatValidator", [v |-> v, validator |-> validator],
                   FloatValidatorFn(validator, v))

CallBoolValidator ==
    /\ pc = "idle"
    /\ \E v \in DynValues, validator \in TypedStubs(BOOLEAN) :
          Returned("BoolValidator", [v |-> v, validator |-> validator],
                   BoolValidatorFn(validator, v))

ShimNext ==
    \/ CallStringValidator
    \/ CallIntValidator
    \/ CallFloatValidator
    \/ CallBoolValidator

ShimSpec == Init /\ [][ShimNext]_vars

(***************************************************************************)
(* Concurrent invocations.  Two goroutines invoke the same validator, on   *)
(* the same input object or on two; an invocation advances by one          *)
(* iteration of its loop at a time.  heap.input holds the input objects,   *)
(* heap.local the collection each invocation allocates (errs, seen,        *)
(* validated); frames[p] holds the other locals of invocation p: the       *)
(* input it was handed, its loop index, the stubs it has invoked and,      *)
(* once it has returned, its result.  args.fn is the validator.            *)
(***************************************************************************)
Procs == {1, 2}

\* the rule lists of at most one rule with one validator, over the value
\* set dom
SmallRules(dom) ==
    {<<>>} \cup
    {<<MapKey(k, req, <<RuleLeaf(1, 1, acc, dom)>>)>> :
        k \in RuleKeys, req \in BOOLEAN, acc \in BOOLEAN}

\* the rule lists of the concurrent map validations
ConcRules == SmallRules(StringValues)

\* the validators invoked concurrently
ConcFns ==
    {Or(vs) : vs \in UNION {LeafLists(n) : n \in 1..MaxConc}}
        \cup {Each(ev) : ev \in LeafStubs(1)}
        \cup {UniqueItems}
        \cup {[kind |-> "ValidateStringMap", allowExtra |-> a, rules |-> rules] :
                 a \in BOOLEAN, rules \in ConcRules}

\* the inputs a validator of ConcFns takes
InputsOf(fn) ==
    CASE fn.kind = "Or" -> Values
      [] fn.kind \in {"Each", "UniqueItems"} ->
            UNION {[1..n -> Values] : n \in 0..MaxConc}
      [] fn.kind = "ValidateStringMap" -> StringMaps

\* the results a call of fn on the input x can return: one, but for the
\* map validators one for every order in which range can yield the keys
Outcomes(fn, x) ==
    CASE fn.kind = "Validate" -> {Validate(x, fn.validators)}
      [] fn.kind = "ValidateStringMap" ->
            {ValidateStringMap(x, fn.allowExtra, fn.rules, order) :
                order \in RangeOrders(x)}
      [] fn.kind = "ValidateAnyMap" ->
            {ValidateAnyMap(x, fn.allowExtra, fn.rules, order) :
                order \in RangeOrders(x)}
      [] OTHER -> {Call(fn, x)}

\* the frame of an invocation that has not started
NewFrame(in) == [in |-> in, state |-> "start", i |-> 0, log |-> <<>>, res |-> Nil]

ConcInit ==
    /\ pc = "conc"
    /\ now = 0
    /\ op = "none"
    /\ res = Nil
    /\ calls = <<>>
    /\ \E fn \in ConcFns :
          /\ args = [fn |-> fn]
          /\ \/ \E x \in InputsOf(fn) :
                   /\ heap = [input |-> <<x>>, local |-> [s \in Procs |-> <<>>]]
                   /\ frames = [p \in Procs |-> NewFrame(1)]
             \/ \E x \in InputsOf(fn), y \in InputsOf(fn) :
                   /\ heap = [input |-> <<x, y>>, local |-> [s \in Procs |-> <<>>]]
                   /\ frames = [p \in Procs |-> NewFrame(p)]

\* every invocation allocates its collection as shared storage of all
SlotShared(p) == 1

\* where invocation p keeps the collection it allocates: a place of its own
Slot(p) == p

\* the collection of invocation p and the input it was handed
Local(p) == heap.local[Slot(p)]
Input(p) == heap.input[frames[p].in]

SetFrame(p, f) == frames' = [frames EXCEPT ![p] = f]
SetLocal(p, c) == heap' = [heap EXCEPT !.local[Slot(p)] = c]
Return(p, err, log) ==
    SetFrame(p, [frames[p] EXCEPT !.state = "done", !.res = err, !.log = log])

\* var errs []error / seen := make(map[T]bool) / validated := make(map[string]bool)
Start(p) ==
    /\ pc = "conc"
    /\ frames[p].state = "start"
    /\ SetFrame(p, [frames[p] EXCEPT !.state = "run",
                      !.i = IF args.fn.kind \in {"Or", "ValidateStringMap"}
                            THEN 1 ELSE 0])
    /\ SetLocal(p, IF args.fn.kind \in {"Or", "Each"} THEN <<>> ELSE {})
    /\ UNCHANGED <<pc, op, args, res, calls, now>>

\* one iteration of Or's loop, or the statements after the loop
StepOr(p) ==
    /\ pc = "conc"
    /\ args.fn.kind = "Or"
    /\ frames[p].state = "run"
    /\ LET f    == frames[p]
           vs   == args.fn.validators
           errs == Local(p)
       IN  IF f.i > Len(vs)
           THEN /\ Return(p, IF Len(errs) = 1 THEN errs[1]
                             ELSE WrapError(Errorf(<<"all validators failed: ">>,
                                                   JoinErrors(errs))),
                          f.log)
                /\ UNCHANGED heap
           ELSE LET r == Call(vs[f.i], Input(p))
                IN  IF r.err = Nil
                    THEN /\ Return(p, Nil, f.log \o r.calls)
                         /\ UNCHANGED heap
                    ELSE /\ SetFrame(p, [f EXCEPT !.i = f.i + 1,
                                                  !.log = f.log \o r.calls])
                         /\ SetLocal(p, Append(errs, r.err))
    /\ UNCHANGED <<pc, op, args, res, calls, now>>

\* one iteration of Each's loop, or the return after it
StepEach(p) ==
    /\ pc = "conc"
    /\ args.fn.kind = "Each"
    /\ frames[p].state = "run"
    /\ LET f      == frames[p]
           values == Input(p)
           errs   == Local(p)
       IN  IF f.i >= Len(values)
           THEN /\ Return(p, JoinErrors(errs), f.log)
                /\ UNCHANGED heap
           ELSE LET r == Call(args.fn.elementValidator, values[f.i + 1])
                IN  /\ SetFrame(p, [f EXCEPT !.i = f.i + 1,
                                             !.log = f.log \o r.calls])
                    /\ SetLocal(p, IF r.err # Nil
                                   THEN Append(errs,
                                            Errorf(<<"index ", Itoa(f.i), ": ">>,
                                                   r.err))
                                   ELSE errs)
    /\ UNCHANGED <<pc, op, args, res, calls, now>>

\* UniqueItems' loop dropping the duplicate it finds from the slice it was
\* handed
StepUniqueItemsDrop(p) ==
    /\ pc = "conc"
    /\ args.fn.kind = "UniqueItems"
    /\ frames[p].state = "run"
    /\ LET f      == frames[p]
           values == Input(p)
           seen   == Local(p)
       IN  IF f.i >= Len(values)
           THEN /\ Return(p, Nil, f.log)
                /\ UNCHANGED heap
           ELSE IF values[f.i + 1] \in seen
           THEN /\ Return(p, ErrorString(<<"duplicate item at index ",
                                           Itoa(f.i), ": ",
                                           Itoa(values[f.i + 1])>>),
                          f.log)
                /\ heap' = [heap EXCEPT !.input[f.in] =
                               SubSeq(values, 1, f.i)
                                   \o SubSeq(values, f.i + 2, Len(values))]
           ELSE /\ SetFrame(p, [f EXCEPT !.i = f.i + 1])
                /\ SetLocal(p, seen \cup {values[f.i + 1]})
    /\ UNCHANGED <<pc, op, args, res, calls, now>>

\* one iteration of UniqueItems' loop, or the return after it
StepUniqueItems(p) ==
    /\ pc = "conc"
    /\ args.fn.kind = "UniqueItems"
    /\ frames[p].state = "run"
    /\ LET f      == frames[p]
           values == Input(p)
           seen   == Local(p)
       IN  IF f.i >= Len(values)
           THEN /\ Return(p, Nil, f.log)
                /\ UNCHANGED heap
           ELSE IF values[f.i + 1] \in seen
           THEN /\ Return(p, ErrorString(<<"duplicate item at index ",
                                           Itoa(f.i), ": ",
                                           Itoa(values[f.i + 1])>>),
                          f.log)
                /\ UNCHANGED heap
           ELSE /\ SetFrame(p, [f EXCEPT !.i = f.i + 1])
                /\ SetLocal(p, seen \cup {values[f.i + 1]})
    /\ UNCHANGED <<pc, op, args, res, calls, now>>

\* one iteration of ValidateStringMap's loop over the rules, or the test of
\* allowExtra after it
StepMapRule(p) ==
    /\ pc = "conc"
    /\ args.fn.kind = "ValidateStringMap"
    /\ frames[p].state = "run"
    /\ LET f     == frames[p]
           m     == Input(p)
           rules == args.fn.rules
       IN  IF f.i > Len(rules)
           THEN /\ IF args.fn.allowExtra THEN Return(p, Nil, f.log)
                   ELSE SetFrame(p, [f EXCEPT !.state = "scan"])
                /\ UNCHANGED heap
           ELSE LET rule   == rules[f.i]
                    exists == rule.key \in DOMAIN m
                    vr     == StringRuleValidators(rule.key, rule.validators,
                                                   m[rule.key], 1, f.log)
                IN  /\ SetLocal(p, Local(p) \cup {rule.key})
                    /\ IF ~exists /\ rule.required
                       THEN Return(p, ErrorString(<<"key ", Quote(rule.key),
                                                    " is required">>), f.log)
                       ELSE IF exists
                       THEN IF vr.err # Nil THEN Return(p, vr.err, vr.calls)
                            ELSE SetFrame(p, [f EXCEPT !.i = f.i + 1,
                                                       !.log = vr.calls])
                       ELSE SetFrame(p, [f EXCEPT !.i = f.i + 1])
    /\ UNCHANGED <<pc, op, args, res, calls, now>>

\* ValidateStringMap's scan for extra keys
StepMapScan(p) ==
    /\ pc = "conc"
    /\ frames[p].state = "scan"
    /\ \E order \in RangeOrders(Input(p)) :
          Return(p, StringMapExtra(order, Local(p), 1), frames[p].log)
    /\ UNCHANGED <<pc, op, args, res, calls, heap, now>>

ConcNext ==
    \E p \in Procs :
        \/ Start(p)
        \/ StepOr(p)
        \/ StepEach(p)
        \/ StepUniqueItems(p)
        \/ StepMapRule(p)
        \/ StepMapScan(p)

ConcSpec == ConcInit /\ [][ConcNext]_vars

(***************************************************************************)
(* The same call made twice.                                               *)
(***************************************************************************)
\* the functions called twice: Validate, And, Or, Each and the two map
\* validators, over deterministic stubs
TwiceFns ==
    {[kind |-> "Validate", validators |-> vs] :
        vs \in UNION {LeafLists(n) : n \in 0..MaxConc}}
        \cup {And(vs) : vs \in UNION {LeafLists(n) : n \in 0..MaxConc}}
        \cup {Or(vs) : vs \in UNION {LeafLists(n) : n \in 1..MaxConc}}
        \cup {Each(ev) : ev \in LeafStubs(1)}
        \cup {[kind |-> "ValidateStringMap", allowExtra |-> a, rules |-> rules] :
                 a \in BOOLEAN, rules \in SmallRules(StringValues)}
        \cup {[kind |-> "ValidateAnyMap", allowExtra |-> a, rules |-> rules] :
                 a \in BOOLEAN, rules \in SmallRules(AnyValues)}

TwiceInputs(fn) ==
    CASE fn.kind \in {"Validate", "And", "Or"} -> Values
      [] fn.kind = "Each" -> UNION {[1..n -> Values] : n \in 0..MaxConc}
      [] fn.kind = "ValidateStringMap" -> StringMaps
      [] fn.kind = "ValidateAnyMap" -> AnyMaps

\* first := fn(x); second := fn(x): res and calls hold the pair
CallTwice ==
    /\ pc = "idle"
    /\ \E fn \in TwiceFns :
          \E x \in TwiceInputs(fn) :
              \E first \in Outcomes(fn, x), second \in Outcomes(fn, x) :
                  Returned("Twice", [fn |-> fn, x |-> x],
                           [err   |-> <<first.err, second.err>>,
                            calls |-> <<first.calls, second.calls>>])

TwiceNext == CallTwice

TwiceSpec == Init /\ [][TwiceNext]_vars

(***************************************************************************)
(* One validator invoked on one value at two points of an execution, the   *)
(* clock advancing in between.  res holds the results in the order of the  *)
(* invocations, calls the instants at which they were made.                *)
(***************************************************************************)
Times == 0..MaxTime

\* the strings handed to the date validators: one that does not parse and,
\* for every instant, one that denotes it
DateStrings ==
    {[parses |-> FALSE, t |-> 0]} \cup {[parses |-> TRUE, t |-> t] : t \in Times}

\* the validators that read the clock
ClockFns ==
    {[kind |-> k] :
        k \in {"IsFutureDateFormat", "IsPastDateFormat", "IsFutureTime",
               "IsPastTime"}}

\* the validators invoked twice: those of dates and times, and stubs and
\* combinators of stubs
PureFns ==
    {[kind |-> "IsTimeBefore", before |-> t] : t \in Times}
        \cup {[kind |-> "IsTimeAfter", after |-> t] : t \in Times}
        \cup LeafStubs(1)
        \cup {Or(vs) : vs \in LeafLists(2)}
        \cup {Not(v) : v \in LeafStubs(1)}
        \cup {WithMessage(v, m) : v \in LeafStubs(1), m \in Messages}

TimeFns == ClockFns \cup PureFns

TimeInputs(fn) ==
    IF fn.kind \in {"IsFutureDateFormat", "IsPastDateFormat"} THEN DateStrings
    ELSE IF fn.kind \in {"IsFutureTime", "IsPastTime", "IsTimeBefore",
                         "IsTimeAfter"} THEN Times
    ELSE Values

\* the clock advances
Tick ==
    /\ pc \in {"idle", "once"}
    /\ now < MaxTime
    /\ now' = now + 1
    /\ UNCHANGED <<pc, op, args, res, calls, frames, heap>>

\* the first invocation
CallOnce ==
    /\ pc = "idle"
    /\ \E fn \in TimeFns :
          \E x \in TimeInputs(fn) :
              /\ args' = [fn |-> fn, x |-> x]
              /\ res' = <<Call(fn, x).err>>
    /\ calls' = <<now>>
    /\ pc' = "once"
    /\ op' = "Once"
    /\ UNCHANGED <<frames, heap, now>>

\* the second invocation, of the same validator on the same value
CallAgain ==
    /\ pc = "once"
    /\ res' = Append(res, Call(args.fn, args.x).err)
    /\ calls' = Append(calls, now)
    /\ pc' = "done"
    /\ op' = "Again"
    /\ UNCHANGED <<args, frames, heap, now>>

TimeNext == Tick \/ CallOnce \/ CallAgain

TimeSpec == Init /\ [][TimeNext]_vars

(***************************************************************************)
(* The two map validators side by side.                                    *)
(***************************************************************************)
\* the string-valued map m as a map[string]any
AnyView(m) == [k \in DOMAIN m |-> [type |-> "string", val |-> m[k]]]

\* the rules with every validator adapted through StringValidator
AdaptRules(rules) ==
    [r \in 1..Len(rules) |->
        MapKey(rules[r].key, rules[r].required,
               [j \in 1..Len(rules[r].validators) |->
                   StringValidator(rules[r].validators[j])])]

\* ValidateStringMap(m, allowExtra, rules...) and ValidateAnyMap on the same
\* map and the adapted rules; each ranges over the keys in an order of its
\* own; res and calls hold the pair
CallBothMapValidators ==
    /\ pc = "idle"
    /\ \E m \in StringMaps, allowExtra \in BOOLEAN, sh \in ShapeLists :
          \E o1 \in RangeOrders(m), o2 \in RangeOrders(m) :
              LET rules == RulesOf(sh, StringValues)
                  first == ValidateStringMap(m, allowExtra, rules, o1)
                  second == ValidateAnyMap(AnyView(m), allowExtra,
                                           AdaptRules(rules), o2)
              IN  Returned("BothMapValidators",
                           [m |-> m, allowExtra |-> allowExtra, rules |-> rules,
                            orders |-> <<o1, o2>>],
                           [err   |-> <<first.err, second.err>>,
                            calls |-> <<first.calls, second.calls>>])

BothNext == CallBothMapValidators

BothSpec == Init /\ [][BothNext]_vars

(***************************************************************************)
(* The calls of the error model.                                           *)
(***************************************************************************)
\* the messages of the errors handed to the error model
ErrMsgs == {<<"original error">>, <<"regular error">>}

\* errors made outside the library: plain errors, fmt.Errorf around them and
\* errors.Join of them, nested d deep
ForeignErrors(d) ==
    IF d = 0 THEN {ErrorString(m) : m \in ErrMsgs}
    ELSE LET prev == ForeignErrors(d - 1)
         IN  prev \cup {Errorf(<<"context: ">>, e) : e \in prev}
                  \cup {JoinErrors(<<a, b>>) : a \in ForeignErrors(0), b \in prev}

Foreign == ForeignErrors(MaxWrap)

\* the validation errors the error model makes from a message or from a
\* foreign error
Made == {NewValidationError(m) : m \in ErrMsgs} \cup {WrapError(e) : e \in Foreign}

\* errors.Join of two results of which at least one is a validation error
\* and the other a validation error or nil
Joined ==
    {JoinErrors(<<a, b>>) : a \in Made, b \in Made \cup {Nil}}
        \cup {JoinErrors(<<Nil, b>>) : b \in Made}

ErrInputs == {Nil} \cup Foreign \cup Made \cup Joined

CallNewValidationError ==
    /\ pc = "idle"
    /\ \E message \in ErrMsgs :
          Returned("NewValidationError", [message |-> message],
                   [err |-> NewValidationError(message), calls |-> <<>>])

CallWrapError ==
    /\ pc = "idle"
    /\ \E err \in ErrInputs :
          Returned("WrapError", [err |-> err],
                   [err |-> WrapError(err), calls |-> <<>>])

\* wrappedErr := WrapError(err); WrapError(wrappedErr)
CallWrapErrorTwice ==
    /\ pc = "idle"
    /\ \E err \in ErrInputs :
          LET wrappedErr == WrapError(err)
          IN  Returned("WrapErrorTwice", [err |-> err, once |-> wrappedErr],
                       [err |-> WrapError(wrappedErr), calls |-> <<>>])

\* here res is the boolean returned
CallIsValidationError ==
    /\ pc = "idle"
    /\ \E err \in ErrInputs :
          Returned("IsValidationError", [err |-> err],
                   [err |-> IsValidationError(err), calls |-> <<>>])

CallUnwrap ==
    /\ pc = "idle"
    /\ \E err \in ErrInputs \ {Nil} :
          Returned("Unwrap", [err |-> err],
                   [err |-> Unwrap(err), calls |-> <<>>])

ErrNext ==
    \/ CallNewValidationError
    \/ CallWrapError
    \/ CallWrapErrorTwice
    \/ CallIsValidationError
    \/ CallUnwrap

ErrSpec == Init /\ [][ErrNext]_vars

(***************************************************************************)
(* Vocabulary of the properties.                                           *)
(***************************************************************************)
\* the leaf stub v accepts x
Passes(v, x) == x \in v.pass

\* the positions of the list vs whose stub rejects x
Failing(vs, x) == {i \in 1..Len(vs) : ~Passes(vs[i], x)}

\* the positions of the list vs whose stub accepts x
Passing(vs, x) == {i \in 1..Len(vs) : Passes(vs[i], x)}

\* the least element of a non-empty set of numbers
Least(S) == CHOOSE i \in S : \A j \in S : i <= j

\* the invocations of the first n stubs of vs on x, in list order
FirstCalls(vs, x, n) == [j \in 1..n |-> <<vs[j].id, x>>]

\* the pieces sub occur contiguously in the message m, starting at piece k
OccursAt(sub, m, k) ==
    /\ k >= 1
    /\ k + Len(sub) - 1 <= Len(m)
    /\ SubSeq(m, k, k + Len(sub) - 1) = sub

Occurs(sub, m) == \E k \in 1..Len(m) : OccursAt(sub, m, k)

\* a call of the named operation has returned
Done(name) == pc = "done" /\ op = name

(***************************************************************************)
(* C1: Validate(x, v1..vn) invokes the validators strictly in the given    *)
(* order, returns exactly the error of the first vi that fails, and        *)
(* invokes no vj with j > i.                                               *)
(***************************************************************************)
C1_ValidateFirstFailure ==
    Done("Validate") =>
        LET vs == args.validators
            x  == args.value
            F  == Failing(vs, x)
        IN  IF F = {}
            THEN calls = FirstCalls(vs, x, Len(vs))
            ELSE /\ calls = FirstCalls(vs, x, Least(F))
                 /\ res = LeafErr(vs[Least(F)])
                 /\ Msg(res) = <<"failed ", Itoa(Least(F))>>

\* a call where the second of three validators fails, and so would the third
C1_Witness ==
    /\ Done("Validate")
    /\ Len(args.validators) = 3
    /\ Failing(args.validators, args.value) = {2, 3}
    /\ Len(calls) = 2
    /\ res = LeafErr(args.validators[2])

(***************************************************************************)
(* C2: Validate(x, v1..vn) returns no error if and only if every one of    *)
(* v1..vn passes on x.                                                     *)
(***************************************************************************)
C2_ValidateNilIffAllPass ==
    Done("Validate") =>
        (res = Nil <=> \A i \in 1..Len(args.validators) :
                           Passes(args.validators[i], args.value))

\* a passing call of three validators, all invoked
C2_Witness ==
    /\ Done("Validate")
    /\ Len(args.validators) = 3
    /\ Failing(args.validators, args.value) = {}
    /\ res = Nil
    /\ Len(calls) = 3

(***************************************************************************)
(* C3: And(v1..vn)(x) returns the same result as Validate(x, v1..vn) and   *)
(* invokes the same validators in the same order; And() with no validator  *)
(* passes for every input.                                                 *)
(***************************************************************************)
C3_AndIsValidate ==
    Done("And") =>
        /\ res = Validate(args.value, args.validators).err
        /\ calls = Validate(args.value, args.validators).calls
        /\ (args.validators = <<>> => res = Nil /\ calls = <<>>)

\* a call of And whose second validator fails before a third that would too
C3_Witness ==
    /\ Done("And")
    /\ Len(args.validators) = 3
    /\ Failing(args.validators, args.value) = {2, 3}
    /\ res = LeafErr(args.validators[2])
    /\ Len(calls) = 2

(***************************************************************************)
(* C4: Or(v1..vn)(x) passes if and only if at least one vi passes on x;    *)
(* the validators are tried in input order and none after the first        *)
(* passing one is invoked; Or() with no validator fails for every input.   *)
(***************************************************************************)
C4_OrPassesIffSomePass ==
    Done("Or") =>
        LET vs == args.validators
            x  == args.value
            P  == Passing(vs, x)
        IN  /\ res = Nil <=> P # {}
            /\ calls = FirstCalls(vs, x, IF P = {} THEN Len(vs) ELSE Least(P))
            /\ (vs = <<>> => res # Nil)

\* a call of Or whose first validator fails and whose second passes, a third
\* being left alone
C4_Witness ==
    /\ Done("Or")
    /\ Len(args.validators) = 3
    /\ Passing(args.validators, args.value) = {2}
    /\ res = Nil
    /\ Len(calls) = 2

(***************************************************************************)
(* C5: Or(v) with exactly one validator that fails on x returns v's own    *)
(* error, with no "all validators failed" wrapping.                        *)
(***************************************************************************)
C5_OrSingleVerbatim ==
    (/\ Done("Or")
     /\ Len(args.validators) = 1
     /\ ~Passes(args.validators[1], args.value)) =>
        /\ res = LeafErr(args.validators[1])
        /\ ~Occurs(<<"all validators failed: ">>, Msg(res))

\* a call of Or with a single validator, which fails
C5_Witness ==
    /\ Done("Or")
    /\ Len(args.validators) = 1
    /\ ~Passes(args.validators[1], args.value)
    /\ res # Nil
    /\ calls = << <<1, args.value>> >>

(***************************************************************************)
(* C6: when two or more validators are given to Or and all of them fail,   *)
(* Or returns a composite error that is a validation error, whose message  *)
(* indicates "all validators failed", and whose cause chain contains every *)
(* individual failure, with its message, in input order.                   *)
(***************************************************************************)
C6_OrAllFailedComposite ==
    (/\ Done("Or")
     /\ Len(args.validators) >= 2
     /\ Passing(args.validators, args.value) = {}) =>
        LET vs     == args.validators
            n      == Len(vs)
            isLeaf(e) == \E i \in 1..n : e = LeafErr(vs[i])
        IN  /\ res # Nil
            /\ IsValidationError(res)
            /\ OccursAt(<<"all validators failed: ">>, Msg(res), 1)
            \* the individual failures on the chain, in the order met
            /\ SelectSeq(Chain(res), isLeaf) = [i \in 1..n |-> LeafErr(vs[i])]
            \* their messages, one per line, in input order
            /\ Len(Msg(res)) = 1 + 3 * n - 1
            /\ \A i \in 1..n :
                  OccursAt(Msg(LeafErr(vs[i])), Msg(res), 2 + 3 * (i - 1))

\* a call of Or with three validators returning plain errors, all failing
C6_Witness ==
    /\ Done("Or")
    /\ Len(args.validators) = 3
    /\ Passing(args.validators, args.value) = {}
    /\ \A i \in 1..3 : ~args.validators[i].ve
    /\ res.kind = "Error"
    /\ Len(calls) = 3

(***************************************************************************)
(* C7: Each(v) applied to a sequence invokes v on every element exactly    *)
(* once, in ascending index order, regardless of failures on earlier       *)
(* elements.                                                               *)
(***************************************************************************)
C7_EachInvokesEveryElement ==
    Done("Each") =>
        calls = [j \in 1..Len(args.values) |->
                    <<args.elementValidator.id, args.values[j]>>]

\* a call of Each on three elements whose first element fails
C7_Witness ==
    /\ Done("Each")
    /\ Len(args.values) = 3
    /\ ~Passes(args.elementValidator, args.values[1])
    /\ args.values[2] # args.values[3]
    /\ Len(calls) = 3

(***************************************************************************)
(* C8: Each(v) on a sequence returns no error if and only if every element *)
(* passes v (so the empty sequence passes); otherwise the aggregated error *)
(* mentions the zero-based index of every failing element, and of no       *)
(* passing element, together with that element's failure message.          *)
(***************************************************************************)
C8_EachAggregatesByIndex ==
    Done("Each") =>
        LET xs == args.values
            v  == args.elementValidator
            mentions(i) ==
                Occurs(<<"index ", Itoa(i), ": ">> \o Msg(LeafErr(v)), Msg(res))
            named(i) == Occurs(<<"index ", Itoa(i), ": ">>, Msg(res))
        IN  /\ res = Nil <=> \A j \in 1..Len(xs) : Passes(v, xs[j])
            /\ (xs = <<>> => res = Nil)
            /\ res # Nil =>
                  \A i \in 0..(Len(xs) - 1) :
                      /\ ~Passes(v, xs[i + 1]) => mentions(i)
                      /\ Passes(v, xs[i + 1]) => ~named(i)

\* a call of Each where the elements at indexes 0 and 2 fail and 1 passes
C8_Witness ==
    /\ Done("Each")
    /\ Len(args.values) = 3
    /\ ~Passes(args.elementValidator, args.values[1])
    /\ Passes(args.elementValidator, args.values[2])
    /\ ~Passes(args.elementValidator, args.values[3])
    /\ res.kind = "joinError"
    /\ Len(res.errs) = 2

(***************************************************************************)
(* Vocabulary of the properties of the map validators.                     *)
(***************************************************************************)
\* a call of one of the two map validators has returned
MapDone == Done("ValidateStringMap") \/ Done("ValidateAnyMap")

\* the key of the rule is in the map
Present(m, rule) == rule.key \in DOMAIN m

\* the rule is satisfied by the map
RulePasses(m, rule) ==
    IF Present(m, rule)
    THEN Failing(rule.validators, m[rule.key]) = {}
    ELSE ~rule.required

\* the positions of the rules the map does not satisfy
FailingRules(m, rules) == {r \in 1..Len(rules) : ~RulePasses(m, rules[r])}

\* the position of the last rule a call looks at
LastRule(m, rules) ==
    IF FailingRules(m, rules) = {} THEN Len(rules)
    ELSE Least(FailingRules(m, rules))

\* the invocations expected of one rule: none when the key is absent, else
\* the rule's validators on the key's value up to the first that fails
RuleCalls(m, rule) ==
    IF ~Present(m, rule) THEN <<>>
    ELSE LET F == Failing(rule.validators, m[rule.key])
         IN  FirstCalls(rule.validators, m[rule.key],
                        IF F = {} THEN Len(rule.validators) ELSE Least(F))

\* the invocations expected of the rules r..last, in order
ExpectedCalls(m, rules, r) ==
    IF r > LastRule(m, rules) THEN <<>>
    ELSE RuleCalls(m, rules[r]) \o ExpectedCalls(m, rules, r + 1)

\* the key as the %q verb prints it
Quoted(key) ==
    CASE key = "name"  -> "\"name\""
      [] key = "age"   -> "\"age\""
      [] key = "extra" -> "\"extra\""

\* the rule that a stub identity belongs to
RuleOfCall(c) == c[1] \div 10

(***************************************************************************)
(* C9: in ValidateStringMap and ValidateAnyMap the rules are processed in  *)
(* the order given and the first rule that fails ends the call: when a     *)
(* rule's key is absent and the rule is required, the call fails at once   *)
(* with an error naming that key as required, and no validator of any      *)
(* later rule is invoked (failures are not aggregated across rules).       *)
(***************************************************************************)
C9_MapFirstFailingRuleEnds ==
    MapDone =>
        LET m     == args.m
            rules == args.rules
            FR    == FailingRules(m, rules)
        IN  /\ calls = ExpectedCalls(m, rules, 1)
            /\ FR # {} =>
                  LET f == Least(FR)
                  IN  /\ res # Nil
                      /\ res.kind # "joinError"
                      /\ \A i \in 1..Len(calls) : RuleOfCall(calls[i]) <= f
                      /\ ~Present(m, rules[f]) =>
                            /\ res.kind = "errorString"
                            /\ Msg(res) = <<"key ", Quoted(rules[f].key),
                                            " is required">>

\* the first of two rules is required and its key is absent, while the
\* second rule's key is present and has a validator that would fail
C9_Witness ==
    /\ Done("ValidateStringMap")
    /\ Len(args.rules) = 2
    /\ args.rules[1].required
    /\ ~Present(args.m, args.rules[1])
    /\ Present(args.m, args.rules[2])
    /\ Failing(args.rules[2].validators, args.m[args.rules[2].key]) # {}
    /\ Msg(res) = <<"key ", Quoted(args.rules[1].key), " is required">>
    /\ calls = <<>>

(***************************************************************************)
(* C10: in the map validators, when a rule's key is present its validators *)
(* are run on the key's value in order with first-failure short-circuit,   *)
(* and a failure is returned wrapped with the key name as context while    *)
(* preserving the validator's message; when the key is absent and the rule *)
(* is optional, none of the rule's validators is invoked and the rule      *)
(* passes.                                                                 *)
(***************************************************************************)
C10_MapRuleValidators ==
    MapDone =>
        LET m     == args.m
            rules == args.rules
            FR    == FailingRules(m, rules)
            last  == LastRule(m, rules)
            callsOf(r) == SelectSeq(calls, LAMBDA c : RuleOfCall(c) = r)
        IN  /\ \A r \in 1..last :
                  IF Present(m, rules[r])
                  THEN callsOf(r) = RuleCalls(m, rules[r])
                  ELSE callsOf(r) = <<>>
            /\ \A r \in 1..Len(rules) :
                  (~Present(m, rules[r]) /\ ~rules[r].required) =>
                      callsOf(r) = <<>>
            /\ (FR # {} /\ Present(m, rules[Least(FR)])) =>
                  LET rule == rules[Least(FR)]
                      v    == rule.validators[
                                  Least(Failing(rule.validators, m[rule.key]))]
                  IN  /\ res.kind = "wrapError"
                      /\ res.cause = LeafErr(v)
                      /\ Msg(res) = <<"key ", Quoted(rule.key), ": ">>
                                        \o Msg(LeafErr(v))
            \* no rule fails, the optional rules of absent keys included: the
            \* call passes, or fails only on a key that no rule names
            /\ FR = {} =>
                  \/ res = Nil
                  \/ /\ ~args.allowExtra
                     /\ \E k \in DOMAIN m :
                           /\ \A r \in 1..Len(rules) : rules[r].key # k
                           /\ Msg(res) = <<"key ", Quoted(k), " not expected">>
            /\ (FR = {} /\ args.allowExtra) => res = Nil

\* a rule whose key is present and whose two validators would both fail:
\* only the first is invoked and its failure comes back under the key
C10_Witness ==
    /\ Done("ValidateAnyMap")
    /\ Len(args.rules) = 1
    /\ Present(args.m, args.rules[1])
    /\ Len(args.rules[1].validators) = 2
    /\ Failing(args.rules[1].validators, args.m[args.rules[1].key]) = {1, 2}
    /\ calls = << <<11, args.m[args.rules[1].key]>> >>
    /\ res.kind = "wrapError"
    /\ res.cause = LeafErr(args.rules[1].validators[1])

(***************************************************************************)
(* C11: when every rule passes, with allowExtra false the map validators   *)
(* fail if and only if the map contains a key that no rule names, and the  *)
(* error names such a key as unexpected; with allowExtra true keys not     *)
(* named by any rule never cause a failure.                                *)
(***************************************************************************)
\* the keys of the map that no rule names
ExtraKeys(m, rules) ==
    DOMAIN m \ {rules[r].key : r \in 1..Len(rules)}

C11_MapExtraKeys ==
    (MapDone /\ FailingRules(args.m, args.rules) = {}) =>
        LET extra == ExtraKeys(args.m, args.rules)
        IN  IF args.allowExtra
            THEN res = Nil
            ELSE /\ res # Nil <=> extra # {}
                 /\ res # Nil =>
                       \E k \in extra :
                           /\ res.kind = "errorString"
                           /\ Msg(res) = <<"key ", Quoted(k), " not expected">>

\* rules {name: required, age: optional}, extra keys disallowed, and the map
\* {name, age, extra}: the call fails naming extra
C11_Witness ==
    /\ Done("ValidateStringMap")
    /\ ~args.allowExtra
    /\ Len(args.rules) = 2
    /\ args.rules[1].key = "name" /\ args.rules[1].required
    /\ args.rules[2].key = "age" /\ ~args.rules[2].required
    /\ DOMAIN args.m = {"name", "age", "extra"}
    /\ Msg(res) = <<"key ", "\"extra\"", " not expected">>

(***************************************************************************)
(* C12: for any value and any validators, every non-nil error returned by  *)
(* Validate is identified as a validation error by IsValidationError.      *)
(* Validate hands back the failing validator's error as it is, so this     *)
(* fails for a validator that returns a plain fmt.Errorf error, as         *)
(* Required, Range, In, NotEmpty, NotNil and the playground validators do. *)
(***************************************************************************)
C12_ValidateReturnsValidationError ==
    (Done("Validate") /\ res # Nil) => IsValidationError(res)

(***************************************************************************)
(* C13: every non-nil error returned by Each and by the map validators     *)
(* (missing-required-key error, unexpected-key error and per-key wrapped   *)
(* failure) is identified as a validation error, also when the inner       *)
(* failure came from a validator that returned a foreign error.  The map   *)
(* validators and Each build these errors with fmt.Errorf and errors.Join  *)
(* alone, so the property fails whenever no validation Error is wrapped.   *)
(***************************************************************************)
C13_AggregatesAreValidationErrors ==
    ((Done("Each") \/ MapDone) /\ res # Nil) => IsValidationError(res)

(***************************************************************************)
(* C14: WrapError leaves absence and validation errors unchanged:          *)
(* WrapError(nil) is nil, WrapError of an error that already is a          *)
(* validation error returns that same error, and therefore                 *)
(* WrapError(WrapError(err)) is the same error as WrapError(err) for       *)
(* every err.                                                              *)
(***************************************************************************)
C14_WrapErrorIdempotent ==
    /\ Done("WrapError") =>
          /\ args.err = Nil => res = Nil
          /\ args.err \in Made \cup Joined => res = args.err
    /\ Done("WrapErrorTwice") => res = args.once

\* a foreign error wrapped and wrapped again: one wrapper around it
C14_Witness ==
    /\ Done("WrapErrorTwice")
    /\ args.err \in Foreign
    /\ args.once # args.err
    /\ res.kind = "Error"
    /\ res.cause = args.err

(***************************************************************************)
(* C15: for every non-nil foreign error err, WrapError(err) is a non-nil   *)
(* validation error whose message is exactly err's message;                *)
(* NewValidationError(msg) always yields a validation error whose message  *)
(* is msg.                                                                 *)
(***************************************************************************)
C15_WrapKeepsMessage ==
    /\ (Done("WrapError") /\ args.err \in Foreign) =>
          /\ res # Nil
          /\ IsValidationError(res)
          /\ Msg(res) = Msg(args.err)
    /\ Done("NewValidationError") =>
          /\ res # Nil
          /\ IsValidationError(res)
          /\ Msg(res) = args.message

\* a fmt.Errorf error around a plain one is wrapped: the wrapper reads
\* "context: original error"
C15_Witness ==
    /\ Done("WrapError")
    /\ args.err = Errorf(<<"context: ">>, ErrorString(<<"original error">>))
    /\ res # args.err
    /\ Msg(res) = <<"context: ", "original error">>

(***************************************************************************)
(* C16: Unwrap is the inverse of wrap on foreign errors: for every foreign *)
(* err, unwrap(WrapError(err)) returns exactly err, and unwrap of a leaf   *)
(* validation error built from a plain message returns nil.                *)
(***************************************************************************)
C16_UnwrapInvertsWrap ==
    Done("Unwrap") =>
        /\ \A err \in Foreign : args.err = WrapError(err) => res = err
        /\ \A m \in ErrMsgs : args.err = NewValidationError(m) => res = Nil

\* unwrapping the wrapper of "original error" gives "original error" back
C16_Witness ==
    /\ Done("Unwrap")
    /\ args.err.kind = "Error"
    /\ args.err.cause = ErrorString(<<"original error">>)
    /\ res = ErrorString(<<"original error">>)

(***************************************************************************)
(* C17: IsValidationError returns false for nil and for any error          *)
(* unrelated to the library, and true for every error constructed or       *)
(* wrapped by the error model, including an error formed by joining        *)
(* several validation errors.                                              *)
(***************************************************************************)
C17_IsValidationErrorExact ==
    Done("IsValidationError") =>
        /\ args.err \in {Nil} \cup Foreign => res = FALSE
        /\ args.err \in Made \cup Joined => res = TRUE

\* two validation errors joined by errors.Join are a validation error
C17_Witness ==
    /\ Done("IsValidationError")
    /\ args.err.kind = "joinError"
    /\ Len(args.err.errs) = 2
    /\ \A i \in 1..2 : args.err.errs[i].kind = "Error"
    /\ res = TRUE

\* the message of the error Not returns when its validator passed
ShouldHaveFailed == <<"validation should have failed but passed">>

(***************************************************************************)
(* C18: Not(v) inverts v's outcome on every input: it passes exactly when  *)
(* v fails, and when v passes it fails with a fixed generic message that   *)
(* does not depend on v or its message; hence Not(Not(v)) has the same     *)
(* pass/fail outcome as v for all inputs.                                  *)
(***************************************************************************)
C18_NotInverts ==
    /\ Done("Not") =>
          /\ res = Nil <=> ~Passes(args.validator, args.value)
          /\ res # Nil => Msg(res) = ShouldHaveFailed
    /\ Done("NotNot") =>
          (res = Nil <=> Passes(args.validator, args.value))

\* Not(Not(v)) fails where v fails, with Not's message and not v's
C18_Witness ==
    /\ Done("NotNot")
    /\ ~Passes(args.validator, args.value)
    /\ res # Nil
    /\ Msg(res) = ShouldHaveFailed
    /\ Msg(res) # Msg(LeafErr(args.validator))

(***************************************************************************)
(* C19: When(false, v) never invokes v and passes for every input;         *)
(* When(true, v) invokes v exactly once and returns v's result unchanged.  *)
(***************************************************************************)
C19_WhenGuards ==
    Done("When") =>
        IF args.condition
        THEN /\ calls = << <<args.validator.id, args.value>> >>
             /\ res = IF Passes(args.validator, args.value) THEN Nil
                      ELSE LeafErr(args.validator)
        ELSE /\ calls = <<>>
             /\ res = Nil

\* a validator that would reject the value is skipped when the condition
\* is false
C19_Witness ==
    /\ Done("When")
    /\ ~args.condition
    /\ ~Passes(args.validator, args.value)
    /\ res = Nil
    /\ calls = <<>>

(***************************************************************************)
(* C20: Unless(cond, v) is equivalent to When(!cond, v) for both values of *)
(* cond and every input: same result and same invocations of v.            *)
(***************************************************************************)
C20_UnlessIsWhenNot ==
    Done("Unless") =>
        LET w == Call(When(~args.condition, args.validator), args.value)
        IN  /\ res = w.err
            /\ calls = w.calls

\* the condition is false, so the validator runs and its rejection is
\* returned
C20_Witness ==
    /\ Done("Unless")
    /\ ~args.condition
    /\ ~Passes(args.validator, args.value)
    /\ res = LeafErr(args.validator)
    /\ Len(calls) = 1

(***************************************************************************)
(* C21: WithMessage(v, msg) never changes the pass/fail outcome of v: it   *)
(* passes exactly when v passes, and when v fails it returns a validation  *)
(* error whose message is exactly msg, discarding v's own message.         *)
(***************************************************************************)
C21_WithMessageReplaces ==
    Done("WithMessage") =>
        /\ res = Nil <=> Passes(args.validator, args.value)
        /\ res # Nil => /\ IsValidationError(res)
                        /\ Msg(res) = args.message
                        /\ Unwrap(res) = Nil
        /\ calls = << <<args.validator.id, args.value>> >>

\* a validator that fails with a plain error "failed 1": the error returned
\* is a validation error reading "custom message"
C21_Witness ==
    /\ Done("WithMessage")
    /\ ~Passes(args.validator, args.value)
    /\ ~args.validator.ve
    /\ args.message = <<"custom message">>
    /\ res = NewValidationError(<<"custom message">>)

(***************************************************************************)
(* C22: ValidateNested(value) invokes the value's own Validate routine     *)
(* exactly once and returns its result verbatim when the value exposes     *)
(* one, and always passes (invoking nothing) for a value that does not.    *)
(***************************************************************************)
C22_ValidateNestedDelegates ==
    Done("ValidateNested") =>
        IF args.value.validatable
        THEN /\ calls = << <<args.value.id, "Validate">> >>
             /\ res = args.value.result
        ELSE /\ calls = <<>>
             /\ res = Nil

\* a value whose Validate() returns two joined field errors: they come back
\* as they are
C22_Witness ==
    /\ Done("ValidateNested")
    /\ args.value.validatable
    /\ res.kind = "joinError"
    /\ Len(calls) = 1

\* the dynamic types a shim narrows, and the message it fails with on the
\* others
Narrowed(shim) ==
    CASE shim = "StringValidator" -> {"string"}
      [] shim = "IntValidator"    -> {"int", "int64", "float64"}
      [] shim = "FloatValidator"  -> {"float64", "float32", "int", "int64"}
      [] shim = "BoolValidator"   -> {"bool"}

MustBe(shim) ==
    CASE shim = "StringValidator" -> <<"must be a string">>
      [] shim = "IntValidator"    -> <<"must be a number">>
      [] shim = "FloatValidator"  -> <<"must be a number">>
      [] shim = "BoolValidator"   -> <<"must be a boolean">>

Shims == {"StringValidator", "IntValidator", "FloatValidator", "BoolValidator"}

Narrowable(shim, v) ==
    /\ v.type \in Narrowed(shim)
    /\ (shim = "IntValidator" /\ v.type = "float64") => ~v.num.half

\* the values of the target type equal to v: none when v is a float64
\* greater than every int
NarrowedValues(shim, v) ==
    CASE shim = "StringValidator" -> {v.val}
      [] shim = "BoolValidator"   -> {v.bool}
      [] shim = "IntValidator"    ->
            IF v.type = "float64"
            THEN (IF v.num.over THEN {} ELSE {v.num.n})
            ELSE {v.int}
      [] shim = "FloatValidator"  ->
            IF v.type \in {"float64", "float32"} THEN {v.num}
            ELSE {FloatOfInt(v.int)}

(***************************************************************************)
(* C24: on a value whose runtime representation can be narrowed to the     *)
(* target type, a shim narrows it, invokes the wrapped validator exactly   *)
(* once on the narrowed value and returns its result unchanged:            *)
(* IntValidator does so for int, int64 and whole-valued float64 values     *)
(* (the integer of equal value), FloatValidator for float64, float32, int  *)
(* and int64, StringValidator for strings, BoolValidator for booleans.     *)
(***************************************************************************)
C24_ShimsNarrowAndDelegate ==
    \A shim \in Shims :
        (Done(shim) /\ Narrowable(shim, args.v)) =>
            \E x \in NarrowedValues(shim, args.v) :
                /\ calls = << <<args.validator.id, x>> >>
                /\ res = IF x \in args.validator.pass THEN Nil
                         ELSE LeafErr(args.validator)

\* invocation p has returned
Returns(p) == pc = "conc" /\ frames[p].state = "done"

(***************************************************************************)
(* C25: validators are safe to invoke concurrently: any interleaving of    *)
(* concurrent invocations of the same validators (Each, Or, UniqueItems    *)
(* and the map validators, which build per-call collections) on the same   *)
(* or different inputs yields, for each invocation, the same result as     *)
(* running it alone, because no state is shared between invocations.       *)
(***************************************************************************)
C25_ConcurrentAsAlone ==
    \A p \in Procs :
        Returns(p) =>
            [err |-> frames[p].res, calls |-> frames[p].log]
                \in Outcomes(args.fn, Input(p))

\* two invocations of Or on one input, both between their iterations and
\* each holding the failure it collected, before the first returns what it
\* would return alone
C25_Witness ==
    /\ pc = "conc"
    /\ args.fn.kind = "Or"
    /\ Len(args.fn.validators) = 2
    /\ frames[1].state = "done"
    /\ frames[1].res # Nil
    /\ frames[2].state = "run"
    /\ frames[2].i = 2
    /\ Len(heap.local[2]) = 1

(***************************************************************************)
(* C26: the short-circuit and aggregation semantics are deterministic:     *)
(* for fixed deterministic leaf validators, two calls of Validate, And,    *)
(* Or, Each, ValidateStringMap or ValidateAnyMap with the same arguments   *)
(* return the same outcome and the same error message (including which    *)
(* key or index the error names).                                          *)
(***************************************************************************)
C26_SameCallSameError ==
    Done("Twice") =>
        /\ res[1] = Nil <=> res[2] = Nil
        /\ res[1] # Nil => Msg(res[1]) = Msg(res[2])

RuleError(m, rule) ==
    IF ~Present(m, rule)
    THEN ErrorString(<<"key ", Quoted(rule.key), " is required">>)
    ELSE LET F == Failing(rule.validators, m[rule.key])
         IN  Errorf(<<"key ", Quoted(rule.key), ": ">>,
                    LeafErr(rule.validators[Least(F)]))

\* the error says that some key was not expected
NotExpected(err) ==
    /\ err # Nil
    /\ err.kind = "errorString"
    /\ \E k \in Keys : Msg(err) = <<"key ", Quoted(k), " not expected">>

(***************************************************************************)
(* C28: in the map validators the extra-key scan happens only after every  *)
(* rule has been checked and has passed: whenever some rule fails (missing *)
(* required key or failing validator), the returned error is that rule's   *)
(* error, even if the map also contains keys not covered by any rule and   *)
(* allowExtra is false.                                                    *)
(***************************************************************************)
C28_RulesBeforeExtraKeys ==
    MapDone =>
        LET FR == FailingRules(args.m, args.rules)
        IN  /\ FR # {} => res = RuleError(args.m, args.rules[Least(FR)])
            /\ NotExpected(res) =>
                  /\ FR = {}
                  /\ calls = ExpectedCalls(args.m, args.rules, 1)

\* a rule's validator rejects the value of its key while the map has a key
\* no rule names and allowExtra is false: the error is the rule's
C28_Witness ==
    /\ Done("ValidateAnyMap")
    /\ ~args.allowExtra
    /\ ExtraKeys(args.m, args.rules) # {}
    /\ Len(args.rules) = 1
    /\ Present(args.m, args.rules[1])
    /\ Failing(args.rules[1].validators, args.m[args.rules[1].key]) # {}
    /\ res.kind = "wrapError"
    /\ ~NotExpected(res)

(***************************************************************************)
(* C29: no validator or combinator mutates the value it inspects or the    *)
(* rules it is given: after any call of Validate, Each, UniqueItems,       *)
(* ValidateStringMap or ValidateAnyMap, whether it passes or fails, the    *)
(* input sequence or map (its keys and values) and the rule list are       *)
(* unchanged.  Stated of every step of an invocation: none changes an      *)
(* input object, the validator or its rules.                               *)
(***************************************************************************)
C29_InputsUnchanged ==
    [][pc = "conc" => (heap'.input = heap.input /\ args' = args)]_vars

\* UniqueItems has rejected a sequence that still holds both copies of the
\* duplicate, while the other invocation on the same sequence is still
\* running
C29_Witness ==
    /\ Returns(1)
    /\ args.fn.kind = "UniqueItems"
    /\ frames[1].res # Nil
    /\ frames[2].in = 1
    /\ frames[2].state = "run"
    /\ Input(1) = <<0, 0>>

(***************************************************************************)
(* C30: the two map validators are the same algorithm: for every           *)
(* string-valued map m, flag allowExtra and rule list,                     *)
(* ValidateStringMap(m, allowExtra, rules) and ValidateAnyMap on the same  *)
(* map viewed as dynamically typed, with each rule's validators adapted    *)
(* through StringValidator, agree on pass/fail, on the error message, and  *)
(* on which validators are invoked in which order.                         *)
(***************************************************************************)
C30_MapValidatorsAgree ==
    Done("BothMapValidators") =>
        /\ res[1] = Nil <=> res[2] = Nil
        /\ res[1] # Nil => Msg(res[1]) = Msg(res[2])
        /\ calls[1] = calls[2]

=============================================================================
